---- MODULE Spec2Model ----
(***************************************************************************)
(* smartpos: the sale / refund / purchase-receipt handlers and the stock   *)
(* they move, the cash drawer sessions, and the prices, profit and          *)
(* summaries read from the rows the sales leave.                            *)
(* Every handler is a request that runs statement by statement             *)
(* against the database; Django runs each ORM statement in autocommit      *)
(* (no handler opens transaction.atomic), so what a statement wrote stays  *)
(* written when a later statement of the same request raises.              *)
(*                                                                         *)
(* Quantities are integers counting 0.005 (half of the 0.01 step a         *)
(* DecimalField(decimal_places=2) stores), so a stored quantity is even.   *)
(***************************************************************************)
EXTENDS Integers, Sequences, FiniteSets, TLC

\* ---------------------------------------------------------------- bounds
MaxItems == 2       \* line items in one request body
MaxSales == 2       \* Sale rows
MaxPurchases == 1   \* Purchase rows
MaxOps == 3         \* requests started in one behaviour
MaxQty == 2         \* |quantity| of a line item, in 0.005 units
InitCents == 3      \* quantity_on_hand of the stocked product at the start, in 0.01 units
MaxDrawers == 2     \* CashDrawer rows
MaxBalance == 2     \* largest opening_balance, closing_balance or final_amount
TicksPerDay == 2    \* readings of the clock that fall on one calendar date
MaxTime == 4        \* the latest time the clock reaches by waiting

\* ------------------------------------------------------------ the catalog
\* Product rows.  "p1" was added through views.add_product, which also creates
\* its Inventory row; "p2" was added through ProductViewSet.create, which
\* creates the Product alone.  "px" is an id no Product row has.
Products == {"p1", "p2"}
Stocked == {"p1"}
UnknownIds == {"px"}

Slots == {1, 2}
Cashiers == {"c1", "c2"}
Balances == 0..MaxBalance
Methods == {"cash", "card"}
SaleAmounts == Balances \ {0}
\* NULL in a numeric or datetime column; a key a JSON object does not hold
Null == 0 - 1
\* cost_price and selling_price of every product at the start, in 0.01 units
InitPrices == [cost_price |-> 100, selling_price |-> 150, updated_at |-> 0]
\* Quantities of a line: any positive one, zero, and the negative ones with two
\* fractional digits.
Qtys == {q \in (0 - MaxQty)..MaxQty : q >= 0 \/ q % 2 = 0}
\* The lines a request body may hold: any quantity of a stocked product; for a
\* product with no Inventory row, or an id with no Product row, one quantity
\* (the handlers fail on such a line whatever its quantity).
\* Every line carries the product's selling price as its unit_price.
LineItems ==
    [product : Stocked, quantity : Qtys, unit_price : {InitPrices.selling_price}]
        \cup [product : (Products \ Stocked) \cup UnknownIds, quantity : {MaxQty},
               unit_price : {InitPrices.selling_price}]
ItemLists == UNION {[1..n -> LineItems] : n \in 0..MaxItems}

\* unit_cost of a purchase line, in 0.01 units: 1.00 and 1.50.
UnitCosts == {100, 150}
\* The lines of a purchase order body: either cost for the stocked product, one
\* cost for the others.
PurchaseLines ==
    [product : Stocked, quantity : {MaxQty}, unit_cost : UnitCosts]
        \cup [product : (Products \ Stocked) \cup UnknownIds, quantity : {MaxQty},
               unit_cost : {100}]
PurchaseLists == UNION {[1..n -> PurchaseLines] : n \in 0..MaxItems}
Statuses == {"pending", "received"}

VARIABLES
    inventory,      \* Inventory.quantity_on_hand, by product
    sales,          \* Sale rows, by id
    saleItems,      \* SaleItem rows, by id
    purchases,      \* Purchase rows, by id
    purchaseItems,  \* PurchaseItem rows, by id
    reqs,           \* the request each worker runs, or last answered
    ops,            \* requests started so far
    moved,          \* history: by product, the sum of the deltas the handlers applied
    drawers,        \* CashDrawer rows, by id
    clock,          \* the time timezone.now() and auto_now_add read next
    prices          \* Product.cost_price and selling_price, by product

vars == <<inventory, sales, saleItems, purchases, purchaseItems, reqs, ops, moved,
          drawers, clock, prices>>
db == <<inventory, sales, saleItems, purchases, purchaseItems, moved>>
till == <<drawers, clock>>

\* ------------------------------------------------------- decimal storage
\* DecimalField(max_digits=10, decimal_places=2): a Decimal with a third
\* fractional digit is rounded to two when the row is saved (ROUND_HALF_EVEN).
OnGrid(x) == x % 2 = 0

Quantize(x) ==
    IF OnGrid(x) THEN x
    ELSE LET c == x \div 2 IN IF c % 2 = 0 THEN 2 * c ELSE 2 * (c + 1)

InitQty == 2 * InitCents

\* DecimalField(max_digits=15, decimal_places=2) for money: x counts 0.00005
\* (the product of a quantity counting 0.005 and a price counting 0.01); the
\* row stores it in 0.01 units, rounded half to even.
RoundCents(x) ==
    LET c == x \div 200
        r == x % 200
    IN IF r < 100 THEN c
       ELSE IF r > 100 THEN c + 1
       ELSE IF c % 2 = 0 THEN c ELSE c + 1

\* ------------------------------------------------------------- requests
NoItems == << >>
NoRow == << >>

\* What a refund remembers of the request answered just before it (history,
\* for the properties that speak of two calls in succession).
NoPrev == [op |-> "none", target |-> 0, result |-> "none", inventory |-> [p \in Stocked |-> 0]]

\* A request: its handler (op), where it stands (pc), the line items (or rows)
\* it has still to process, the row it works on (target), the quantity it read
\* (local), the row as its get_object() loaded it (row), its answer (result).  History: the database as it was when the
\* request began (pre), whether its body had no items (empty) or a quantity
\* <= 0 (nonpos), whether it had a line with no unit_price and was a valid
\* body otherwise (unpriced), and the request before it (prev).
Blank ==
    [op |-> "none", pc |-> "idle", items |-> NoItems, target |-> 0, local |-> 0,
     row |-> NoRow, result |-> "none",
     pre |-> [inventory |-> [p \in Stocked |-> 0], nsales |-> 0, nitems |-> 0],
     empty |-> FALSE, nonpos |-> FALSE, unpriced |-> FALSE, prev |-> NoPrev]

\* A worker that has taken no request yet.
Idle == [op |-> "none", pc |-> "idle"]

Snapshot == [inventory |-> inventory, nsales |-> Len(sales), nitems |-> Len(saleItems)]

InFlight(k) == reqs[k].pc \notin {"idle", "done"}

\* A worker takes the next request when it has answered the last one.  With
\* conc = FALSE one request runs at a time (worker 1); with conc = TRUE the
\* second worker takes a request while the first is busy.
CanStart(k, conc) ==
    /\ ops < MaxOps
    /\ ~InFlight(k)
    /\ IF conc THEN k = 1 \/ InFlight(1)
       ELSE k = 1

Begin(k, op, target) == [Blank EXCEPT !.op = op, !.target = target, !.pre = Snapshot]

\* The handlers of CashDrawerViewSet; their target is a drawer.
TillOps == {"open", "close", "patch"}

\* The request this worker answered just before, when it was about the same row.
Previous(k, target) ==
    IF reqs[k].pc = "done" /\ reqs[k].op \notin TillOps /\ reqs[k].target = target
    THEN [op |-> reqs[k].op, target |-> reqs[k].target, result |-> reqs[k].result,
          inventory |-> reqs[k].pre.inventory]
    ELSE NoPrev

Answer(r, result) ==
    [r EXCEPT !.pc = "done", !.result = result, !.items = NoItems, !.local = 0, !.row = NoRow]

\* The head of a sale request: the authenticated user and the money fields of
\* the body (final_amount stands for total_amount, discount and tax as well:
\* the handlers treat the four alike).
SaleHeads == [cashier : Cashiers, payment_method : Methods, final_amount : SaleAmounts]
PlainHead == [cashier |-> "c1", payment_method |-> "cash", final_amount |-> 1]

SaleRow(head, now) ==
    [is_refunded |-> FALSE, cashier |-> head.cashier,
     payment_method |-> head.payment_method, final_amount |-> head.final_amount,
     created_at |-> now]

\* SaleItem.save(): subtotal = quantity * unit_price, from the values the
\* handler passed; each column then stores its own value with two fractional
\* digits.
SaleItemRow(sale, product, quantity, unit_price) ==
    [sale |-> sale, product |-> product, quantity |-> Quantize(quantity),
     unit_price |-> unit_price, subtotal |-> RoundCents(quantity * unit_price),
     credited |-> 0]

\* The ids of the SaleItem rows of a sale, in creation order (sale.items.all()).
ItemsOfSale(s) ==
    SelectSeq([n \in 1..Len(saleItems) |-> n], LAMBDA n : saleItems[n].sale = s)

\* ------------------------------------------------- the body of a sale request
\* items is absent or a list of {product, quantity, unit_price}; a line's
\* unit_price is Null when the line has no such key.
IsEmpty(has_items, items) == ~has_items \/ items = NoItems

HasNonPositive(items) == \E n \in 1..Len(items) : items[n].quantity <= 0

\* A body that names existing products and quantities of two fractional
\* digits, one line at least without unit_price.
OnlyUnpriced(has_items, items) ==
    /\ has_items
    /\ items # NoItems
    /\ \A n \in 1..Len(items) : items[n].product \in Products /\ OnGrid(items[n].quantity)
    /\ \E n \in 1..Len(items) : items[n].unit_price = Null

SaleRequest(k, op, target, has_items, items) ==
    [Begin(k, op, target) EXCEPT !.items = items,
                                 !.empty = IsEmpty(has_items, items),
                                 !.nonpos = HasNonPositive(items),
                                 !.unpriced = OnlyUnpriced(has_items, items)]

\* ------------------------------------------------- SaleViewSet.create
\* SaleCreateSerializer: items is required and non-empty; each line names an
\* existing Product and a quantity with at most two fractional digits, and
\* holds a unit_price (SaleItemCreateSerializer is a ModelSerializer and the
\* model field has no default, so the field is required).
ValidSaleData(has_items, items) ==
    /\ has_items
    /\ items # NoItems
    /\ \A n \in 1..Len(items) :
          /\ items[n].product \in Products
          /\ OnGrid(items[n].quantity)
          /\ items[n].unit_price # Null

ApiCreateSale(k, conc, has_items, head, items) ==
    /\ CanStart(k, conc)
    /\ has_items \/ items = NoItems
    /\ ops' = ops + 1
    /\ IF ~ValidSaleData(has_items, items)
       THEN /\ reqs' = [reqs EXCEPT ![k] =
                  Answer(SaleRequest(k, "api_create", 0, has_items, items), "400")]
            /\ UNCHANGED <<db, clock>>
       ELSE /\ Len(sales) < MaxSales
            /\ sales' = Append(sales, SaleRow(head, clock))
            /\ clock' = clock + 1
            /\ reqs' = [reqs EXCEPT ![k] =
                  [SaleRequest(k, "api_create", Len(sales) + 1, has_items, items)
                       EXCEPT !.pc = "item"]]
            /\ UNCHANGED <<inventory, saleItems, purchases, purchaseItems, moved>>
    /\ UNCHANGED <<drawers, prices>>

ApiSaleItem(k) ==
    LET r == reqs[k]
        item == Head(r.items)
    IN
    /\ r.op = "api_create" /\ r.pc = "item"
    /\ saleItems' = Append(saleItems,
          SaleItemRow(r.target, item.product, item.quantity,
                      IF item.unit_price = Null THEN prices[item.product].selling_price
                      ELSE item.unit_price))
    /\ reqs' = [reqs EXCEPT ![k].pc = "read"]
    /\ UNCHANGED <<inventory, sales, purchases, purchaseItems, ops, moved>>
    /\ UNCHANGED <<till, prices>>

ApiInvRead(k) ==
    LET r == reqs[k]
        p == Head(r.items).product
    IN
    /\ r.op = "api_create" /\ r.pc = "read"
    /\ reqs' = [reqs EXCEPT ![k] =
          IF p \in Stocked
          THEN [r EXCEPT !.local = inventory[p], !.pc = "write"]
          ELSE Answer(r, "500")]
    /\ UNCHANGED <<db, ops>>
    /\ UNCHANGED <<till, prices>>

ApiInvWrite(k) ==
    LET r == reqs[k]
        p == Head(r.items).product
        new == Quantize(r.local - Head(r.items).quantity)
    IN
    /\ r.op = "api_create" /\ r.pc = "write"
    /\ inventory' = [inventory EXCEPT ![p] = new]
    /\ moved' = [moved EXCEPT ![p] = @ + (new - r.local)]
    /\ reqs' = [reqs EXCEPT ![k] =
          IF Len(r.items) = 1 THEN Answer(r, "201")
          ELSE [r EXCEPT !.items = Tail(r.items), !.local = 0, !.pc = "item"]]
    /\ UNCHANGED <<sales, saleItems, purchases, purchaseItems, ops>>
    /\ UNCHANGED <<till, prices>>

\* ------------------------------------------------- views.create_sale
\* No validation: the Sale row is created first, whatever the body holds.
ViewCreateSale(k, conc, has_items, head, items) ==
    /\ CanStart(k, conc)
    /\ has_items \/ items = NoItems
    /\ ops' = ops + 1
    /\ Len(sales) < MaxSales
    /\ sales' = Append(sales, SaleRow(head, clock))
    /\ clock' = clock + 1
    /\ reqs' = [reqs EXCEPT ![k] =
          LET r == SaleRequest(k, "view_create", Len(sales) + 1, has_items, items) IN
          IF items = NoItems THEN Answer(r, "success") ELSE [r EXCEPT !.pc = "item"]]
    /\ UNCHANGED <<inventory, saleItems, purchases, purchaseItems, moved>>
    /\ UNCHANGED <<drawers, prices>>

\* Product.objects.get, then SaleItem.objects.create with the product's
\* selling price, whatever the line holds.
ViewSaleItem(k) ==
    LET r == reqs[k]
        item == Head(r.items)
    IN
    /\ r.op = "view_create" /\ r.pc = "item"
    /\ IF item.product \in Products
       THEN /\ saleItems' = Append(saleItems,
                                   SaleItemRow(r.target, item.product, item.quantity,
                                               prices[item.product].selling_price))
            /\ reqs' = [reqs EXCEPT ![k].pc = "read"]
       ELSE /\ reqs' = [reqs EXCEPT ![k] = Answer(r, "error")]
            /\ UNCHANGED saleItems
    /\ UNCHANGED <<inventory, sales, purchases, purchaseItems, ops, moved>>
    /\ UNCHANGED <<till, prices>>

ViewInvRead(k) ==
    LET r == reqs[k]
        p == Head(r.items).product
    IN
    /\ r.op = "view_create" /\ r.pc = "read"
    /\ reqs' = [reqs EXCEPT ![k] =
          IF p \in Stocked
          THEN [r EXCEPT !.local = inventory[p], !.pc = "write"]
          ELSE Answer(r, "error")]
    /\ UNCHANGED <<db, ops>>
    /\ UNCHANGED <<till, prices>>

ViewInvWrite(k) ==
    LET r == reqs[k]
        p == Head(r.items).product
        new == Quantize(r.local - Head(r.items).quantity)
    IN
    /\ r.op = "view_create" /\ r.pc = "write"
    /\ inventory' = [inventory EXCEPT ![p] = new]
    /\ moved' = [moved EXCEPT ![p] = @ + (new - r.local)]
    /\ reqs' = [reqs EXCEPT ![k] =
          IF Len(r.items) = 1 THEN Answer(r, "success")
          ELSE [r EXCEPT !.items = Tail(r.items), !.local = 0, !.pc = "item"]]
    /\ UNCHANGED <<sales, saleItems, purchases, purchaseItems, ops>>
    /\ UNCHANGED <<till, prices>>

\* ------------------------------------------------- SaleViewSet.refund_sale
\* get_object() loads the Sale and prefetches its items; the handler then
\* works on that copy.  The handler is modelled as entered with the pk of an
\* existing sale; the decorator's detail='' registers it with the router as a
\* collection route, a call through which carries no pk and fails in
\* get_object() before any of the steps below.
RefundSale(k, conc, s) ==
    /\ CanStart(k, conc)
    /\ s \in 1..Len(sales)
    /\ ops' = ops + 1
    /\ reqs' = [reqs EXCEPT ![k] =
          LET r == [Begin(k, "refund", s) EXCEPT !.row = sales[s], !.items = ItemsOfSale(s),
                                                !.prev = Previous(k, s)] IN
          IF r.row.is_refunded THEN Answer(r, "400")
          ELSE IF r.items = NoItems THEN [r EXCEPT !.pc = "save"]
          ELSE [r EXCEPT !.pc = "read"]]
    /\ UNCHANGED db
    /\ UNCHANGED <<till, prices>>

RefundInvRead(k) ==
    LET r == reqs[k]
        p == saleItems[Head(r.items)].product
    IN
    /\ r.op = "refund" /\ r.pc = "read"
    /\ reqs' = [reqs EXCEPT ![k] =
          IF p \in Stocked
          THEN [r EXCEPT !.local = inventory[p], !.pc = "write"]
          ELSE Answer(r, "500")]
    /\ UNCHANGED <<db, ops>>
    /\ UNCHANGED <<till, prices>>

RefundInvWrite(k) ==
    LET r == reqs[k]
        n == Head(r.items)
        p == saleItems[n].product
        new == Quantize(r.local + saleItems[n].quantity)
    IN
    /\ r.op = "refund" /\ r.pc = "write"
    /\ inventory' = [inventory EXCEPT ![p] = new]
    /\ moved' = [moved EXCEPT ![p] = @ + (new - r.local)]
    /\ saleItems' = [saleItems EXCEPT ![n].credited = @ + 1]
    /\ reqs' = [reqs EXCEPT ![k] =
          [r EXCEPT !.items = Tail(r.items), !.local = 0,
                    !.pc = IF Len(r.items) = 1 THEN "save" ELSE "read"]]
    /\ UNCHANGED <<sales, purchases, purchaseItems, ops>>
    /\ UNCHANGED <<till, prices>>

RefundSave(k) ==
    LET r == reqs[k] IN
    /\ r.op = "refund" /\ r.pc = "save"
    /\ sales' = [sales EXCEPT ![r.target] = [r.row EXCEPT !.is_refunded = TRUE]]
    /\ reqs' = [reqs EXCEPT ![k] = Answer(r, "200")]
    /\ UNCHANGED <<inventory, saleItems, purchases, purchaseItems, ops, moved>>
    /\ UNCHANGED <<till, prices>>

\* ------------------------------- SaleViewSet.update / partial_update
\* ModelViewSet's generic update through SaleListSerializer, whose writable
\* fields include is_refunded and final_amount.
SalePatches ==
    [field : {"is_refunded"}, value : BOOLEAN]
        \cup [field : {"final_amount"}, value : SaleAmounts]
FlagPatches == {patch \in SalePatches : patch.field = "is_refunded"}

SaleUpdate(k, conc, s, patch) ==
    /\ CanStart(k, conc)
    /\ s \in 1..Len(sales)
    /\ ops' = ops + 1
    /\ reqs' = [reqs EXCEPT ![k] =
          [Begin(k, "update", s) EXCEPT !.row = [sales[s] EXCEPT ![patch.field] = patch.value],
                                        !.pc = "save"]]
    /\ UNCHANGED db
    /\ UNCHANGED <<till, prices>>

SaleUpdateSave(k) ==
    LET r == reqs[k] IN
    /\ r.op = "update" /\ r.pc = "save"
    /\ sales' = [sales EXCEPT ![r.target] = r.row]
    /\ reqs' = [reqs EXCEPT ![k] = Answer(r, "200")]
    /\ UNCHANGED <<inventory, saleItems, purchases, purchaseItems, ops, moved>>
    /\ UNCHANGED <<till, prices>>

\* ------------------------------------------------- PurchaseViewSet.create
\* PurchaseCreateSerializer: status is one of the two choices, items is
\* non-empty, each line names an existing Product.
ValidPurchaseData(status, items) ==
    /\ status \in Statuses
    /\ items # NoItems
    /\ \A n \in 1..Len(items) :
          /\ items[n].product \in Products
          /\ OnGrid(items[n].quantity)
          /\ items[n].unit_cost \in Int

\* received_ok is history: mark_received has answered 200 for this purchase.
PurchaseRow(status) == [status |-> status, received_ok |-> FALSE]

\* A stored row with a wrong subtotal (the cost alone): what the subtotal
\* property must tell from the row the handler stores.
PurchaseItemRowCostOnly(purchase, product, quantity, unit_cost) ==
    [purchase |-> purchase, product |-> product, quantity |-> Quantize(quantity),
     unit_cost |-> unit_cost, subtotal |-> unit_cost, credited |-> 0]

\* subtotal = quantity * unit_cost, stored with two fractional digits.
PurchaseItemRow(purchase, product, quantity, unit_cost) ==
    [purchase |-> purchase, product |-> product, quantity |-> Quantize(quantity),
     unit_cost |-> unit_cost,
     subtotal |-> RoundCents(quantity * unit_cost),
     credited |-> 0]

ItemsOfPurchase(u) ==
    SelectSeq([n \in 1..Len(purchaseItems) |-> n], LAMBDA n : purchaseItems[n].purchase = u)

CreatePurchase(k, conc, status, items) ==
    /\ CanStart(k, conc)
    /\ ops' = ops + 1
    /\ IF ~ValidPurchaseData(status, items)
       THEN /\ reqs' = [reqs EXCEPT ![k] = Answer(Begin(k, "purchase_create", 0), "400")]
            /\ UNCHANGED db
       ELSE /\ Len(purchases) < MaxPurchases
            /\ purchases' = Append(purchases, PurchaseRow(status))
            /\ reqs' = [reqs EXCEPT ![k] =
                  [Begin(k, "purchase_create", Len(purchases) + 1)
                       EXCEPT !.items = items, !.pc = "item"]]
            /\ UNCHANGED <<inventory, sales, saleItems, purchaseItems, moved>>
    /\ UNCHANGED <<till, prices>>

PurchaseItemCreate(k) ==
    LET r == reqs[k]
        item == Head(r.items)
    IN
    /\ r.op = "purchase_create" /\ r.pc = "item"
    /\ purchaseItems' = Append(purchaseItems,
                               PurchaseItemRow(r.target, item.product, item.quantity,
                                               item.unit_cost))
    /\ reqs' = [reqs EXCEPT ![k] =
          IF Len(r.items) = 1 THEN Answer(r, "201")
          ELSE [r EXCEPT !.items = Tail(r.items)]]
    /\ UNCHANGED <<inventory, sales, saleItems, purchases, ops, moved>>
    /\ UNCHANGED <<till, prices>>

\* ------------------------------------------------- PurchaseViewSet.mark_received
\* Entered with the pk of an existing purchase (detail='' as for refund_sale).
MarkReceived(k, conc, u) ==
    /\ CanStart(k, conc)
    /\ u \in 1..Len(purchases)
    /\ ops' = ops + 1
    /\ reqs' = [reqs EXCEPT ![k] =
          LET r == [Begin(k, "mark_received", u)
                        EXCEPT !.row = purchases[u], !.items = ItemsOfPurchase(u)] IN
          IF r.row.status = "received" THEN Answer(r, "400")
          ELSE IF r.items = NoItems THEN [r EXCEPT !.pc = "save"]
          ELSE [r EXCEPT !.pc = "read"]]
    /\ UNCHANGED db
    /\ UNCHANGED <<till, prices>>

ReceiveInvRead(k) ==
    LET r == reqs[k]
        p == purchaseItems[Head(r.items)].product
    IN
    /\ r.op = "mark_received" /\ r.pc = "read"
    /\ reqs' = [reqs EXCEPT ![k] =
          IF p \in Stocked
          THEN [r EXCEPT !.local = inventory[p], !.pc = "write"]
          ELSE Answer(r, "500")]
    /\ UNCHANGED <<db, ops>>
    /\ UNCHANGED <<till, prices>>

ReceiveInvWrite(k) ==
    LET r == reqs[k]
        n == Head(r.items)
        p == purchaseItems[n].product
        new == Quantize(r.local + purchaseItems[n].quantity)
    IN
    /\ r.op = "mark_received" /\ r.pc = "write"
    /\ inventory' = [inventory EXCEPT ![p] = new]
    /\ moved' = [moved EXCEPT ![p] = @ + (new - r.local)]
    /\ purchaseItems' = [purchaseItems EXCEPT ![n].credited = @ + 1]
    /\ reqs' = [reqs EXCEPT ![k] =
          [r EXCEPT !.items = Tail(r.items), !.local = 0,
                    !.pc = IF Len(r.items) = 1 THEN "save" ELSE "read"]]
    /\ UNCHANGED <<sales, saleItems, purchases, ops>>
    /\ UNCHANGED <<till, prices>>

ReceiveSave(k) ==
    LET r == reqs[k] IN
    /\ r.op = "mark_received" /\ r.pc = "save"
    /\ purchases' = [purchases EXCEPT ![r.target] =
                        [r.row EXCEPT !.status = "received", !.received_ok = TRUE]]
    /\ reqs' = [reqs EXCEPT ![k] = Answer(r, "200")]
    /\ UNCHANGED <<inventory, sales, saleItems, purchaseItems, ops, moved>>
    /\ UNCHANGED <<till, prices>>

\* ------------------------------------------------------------------ spec
Init ==
    /\ inventory = [p \in Stocked |-> InitQty]
    /\ sales = << >>
    /\ saleItems = << >>
    /\ purchases = << >>
    /\ purchaseItems = << >>
    /\ reqs = [k \in Slots |-> Idle]
    /\ ops = 0
    /\ moved = [p \in Stocked |-> 0]
    /\ drawers = << >>
    /\ clock = 1
    /\ prices = [p \in Products |-> InitPrices]

\* The four stock operations, one request at a time.
StockNext ==
    \/ \E k \in Slots, h \in BOOLEAN, items \in ItemLists : ApiCreateSale(k, FALSE, h, PlainHead, items)
    \/ \E k \in Slots : ApiSaleItem(k)
    \/ \E k \in Slots : ApiInvRead(k)
    \/ \E k \in Slots : ApiInvWrite(k)
    \/ \E k \in Slots, h \in BOOLEAN, items \in ItemLists : ViewCreateSale(k, FALSE, h, PlainHead, items)
    \/ \E k \in Slots : ViewSaleItem(k)
    \/ \E k \in Slots : ViewInvRead(k)
    \/ \E k \in Slots : ViewInvWrite(k)
    \/ \E k \in Slots, s \in 1..MaxSales : RefundSale(k, FALSE, s)
    \/ \E k \in Slots : RefundInvRead(k)
    \/ \E k \in Slots : RefundInvWrite(k)
    \/ \E k \in Slots : RefundSave(k)
    \/ \E k \in Slots, st \in Statuses, items \in PurchaseLists :
          CreatePurchase(k, FALSE, st, items)
    \/ \E k \in Slots : PurchaseItemCreate(k)
    \/ \E k \in Slots, u \in 1..MaxPurchases : MarkReceived(k, FALSE, u)
    \/ \E k \in Slots : ReceiveInvRead(k)
    \/ \E k \in Slots : ReceiveInvWrite(k)
    \/ \E k \in Slots : ReceiveSave(k)

\* Every operation of the sale and purchase endpoints, one request at a time.
Next ==
    \/ StockNext
    \/ \E k \in Slots, s \in 1..MaxSales, patch \in FlagPatches :
          SaleUpdate(k, FALSE, s, patch)
    \/ \E k \in Slots : SaleUpdateSave(k)

\* Two workers: a request may start while another is in flight, and their
\* statements interleave.  Bodies hold at most one line.
ConcItemLists == {items \in ItemLists : Len(items) <= 1}
ConcPurchaseLists == {items \in PurchaseLists : Len(items) <= 1}

ConcNext ==
    \/ \E k \in Slots, h \in BOOLEAN, items \in ConcItemLists : ApiCreateSale(k, TRUE, h, PlainHead, items)
    \/ \E k \in Slots : ApiSaleItem(k)
    \/ \E k \in Slots : ApiInvRead(k)
    \/ \E k \in Slots : ApiInvWrite(k)
    \/ \E k \in Slots, h \in BOOLEAN, items \in ConcItemLists : ViewCreateSale(k, TRUE, h, PlainHead, items)
    \/ \E k \in Slots : ViewSaleItem(k)
    \/ \E k \in Slots : ViewInvRead(k)
    \/ \E k \in Slots : ViewInvWrite(k)
    \/ \E k \in Slots, s \in 1..MaxSales : RefundSale(k, TRUE, s)
    \/ \E k \in Slots : RefundInvRead(k)
    \/ \E k \in Slots : RefundInvWrite(k)
    \/ \E k \in Slots : RefundSave(k)
    \/ \E k \in Slots, st \in Statuses, items \in ConcPurchaseLists :
          CreatePurchase(k, TRUE, st, items)
    \/ \E k \in Slots : PurchaseItemCreate(k)
    \/ \E k \in Slots, u \in 1..MaxPurchases : MarkReceived(k, TRUE, u)
    \/ \E k \in Slots : ReceiveInvRead(k)
    \/ \E k \in Slots : ReceiveInvWrite(k)
    \/ \E k \in Slots : ReceiveSave(k)

Spec == Init /\ [][Next]_vars
StockSpec == Init /\ [][StockNext]_vars
ConcSpec == Init /\ [][ConcNext]_vars

\* =================================================== cash drawer sessions
\* request.data.get('closing_balance'): absent, a JSON integer, or a JSON
\* string or float holding a decimal.
NoClosing == [kind |-> "none", value |-> Null]
ClosingInputs ==
    {NoClosing} \cup [kind : {"int", "text"}, value : Balances]

\* The fields CashDrawerSerializer lets a partial_update write.
DrawerPatches ==
    [field : {"is_open"}, value : BOOLEAN] \cup [field : {"closing_balance"}, value : Balances]

DrawerRow(cashier, opening_balance, now) ==
    [cashier |-> cashier, opening_balance |-> opening_balance, closing_balance |-> Null,
     opened_at |-> now, closed_at |-> Null, is_open |-> TRUE]

\* A Sale row with the fields close_drawer's report reads.
TillSaleRow(cashier, payment_method, final_amount, now) ==
    [is_refunded |-> FALSE, cashier |-> cashier, payment_method |-> payment_method,
     final_amount |-> final_amount, created_at |-> now]

NoReport == [difference |-> 0, expected_cash |-> 0, opened_at |-> 0, closed_at |-> 0]
NoTillPrev == [op |-> "none", cashier |-> "none", result |-> "none", drawer |-> 0]

TillBlank ==
    [op |-> "none", pc |-> "idle", target |-> 0, cashier |-> "none", input |-> NoClosing,
     row |-> NoRow, result |-> "none", error |-> "none", drawer |-> 0,
     report |-> NoReport, pre |-> << >>, prev |-> NoTillPrev]

TillBegin(op, target, cashier, input) ==
    [TillBlank EXCEPT !.op = op, !.target = target, !.cashier = cashier, !.input = input,
                      !.pre = drawers]

\* The open_drawer request this worker answered just before.
TillPrevious(k) ==
    IF reqs[k].pc = "done" /\ reqs[k].op = "open"
    THEN [op |-> "open", cashier |-> reqs[k].cashier, result |-> reqs[k].result,
          drawer |-> reqs[k].drawer]
    ELSE NoTillPrev

TillAnswer(r, result) == [r EXCEPT !.pc = "done", !.result = result, !.row = NoRow]

\* A lookup that tests is_open=False instead.
ClosedDrawersOf(cashier) ==
    {d \in 1..Len(drawers) : drawers[d].cashier = cashier /\ ~drawers[d].is_open}

\* filter(cashier=..., is_open=True)
OpenDrawersOf(cashier) ==
    {d \in 1..Len(drawers) : drawers[d].cashier = cashier /\ drawers[d].is_open}

\* .first(): the row of the lowest primary key; ids stand for the pk order.
First(ds) == CHOOSE d \in ds : \A e \in ds : d <= e

\* ------------------------------------------ CashDrawerViewSet.open_drawer
\* The lookup; the create that follows a miss is a statement of its own.
OpenDrawer(k, conc, cashier, opening_balance) ==
    LET found == OpenDrawersOf(cashier)
        creating == {j \in Slots : reqs[j].op = "open" /\ reqs[j].pc = "create"}
        r == [TillBegin("open", 0, cashier, opening_balance) EXCEPT !.prev = TillPrevious(k)]
    IN
    /\ CanStart(k, conc)
    /\ found # {} \/ Len(drawers) + Cardinality(creating) < MaxDrawers
    /\ ops' = ops + 1
    /\ reqs' = [reqs EXCEPT ![k] =
          IF found # {} THEN [TillAnswer(r, "200") EXCEPT !.drawer = First(found)]
          ELSE [r EXCEPT !.pc = "create"]]
    /\ UNCHANGED <<prices, db, till>>

OpenCreate(k) ==
    LET r == reqs[k] IN
    /\ r.op = "open" /\ r.pc = "create"
    /\ drawers' = Append(drawers, DrawerRow(r.cashier, r.input, clock))
    /\ clock' = clock + 1
    /\ reqs' = [reqs EXCEPT ![k] = [TillAnswer(r, "200") EXCEPT !.drawer = Len(drawers) + 1]]
    /\ UNCHANGED <<prices, db, ops>>

\* close_drawer without the is_open test.
CloseDrawerNoOpenTest(k, conc, d, closing_balance) ==
    /\ CanStart(k, conc)
    /\ d \in 1..Len(drawers)
    /\ ops' = ops + 1
    /\ reqs' = [reqs EXCEPT ![k] =
          LET r == [TillBegin("close", d, drawers[d].cashier, closing_balance)
                        EXCEPT !.row = drawers[d]] IN
          IF closing_balance = NoClosing
          THEN [TillAnswer(r, "400") EXCEPT !.error = "required"]
          ELSE [r EXCEPT !.pc = "save"]]
    /\ UNCHANGED <<prices, db, till>>

\* close_drawer without the closing_balance test.
CloseDrawerNoBalanceTest(k, conc, d, closing_balance) ==
    /\ CanStart(k, conc)
    /\ d \in 1..Len(drawers)
    /\ ops' = ops + 1
    /\ reqs' = [reqs EXCEPT ![k] =
          LET r == [TillBegin("close", d, drawers[d].cashier, closing_balance)
                        EXCEPT !.row = drawers[d]] IN
          IF ~r.row.is_open THEN [TillAnswer(r, "400") EXCEPT !.error = "already_closed"]
          ELSE [r EXCEPT !.pc = "save"]]
    /\ UNCHANGED <<prices, db, till>>

\* ----------------------------------------- CashDrawerViewSet.close_drawer
\* Entered with the pk of an existing drawer (detail='' as for refund_sale).
\* get_object() loads the drawer; the tests read that copy.
CloseDrawer(k, conc, d, closing_balance) ==
    /\ CanStart(k, conc)
    /\ d \in 1..Len(drawers)
    /\ ops' = ops + 1
    /\ reqs' = [reqs EXCEPT ![k] =
          LET r == [TillBegin("close", d, drawers[d].cashier, closing_balance)
                        EXCEPT !.row = drawers[d]] IN
          IF ~r.row.is_open THEN [TillAnswer(r, "400") EXCEPT !.error = "already_closed"]
          ELSE IF closing_balance = NoClosing
               THEN [TillAnswer(r, "400") EXCEPT !.error = "required"]
          ELSE [r EXCEPT !.pc = "save"]]
    /\ UNCHANGED <<prices, db, till>>

\* drawer.save() writes every field of the copy.  The attribute keeps the
\* value the request carried: the subtraction that follows works for an int
\* and raises TypeError for a str or a float.
CloseSave(k) ==
    LET r == reqs[k]
        saved == [r.row EXCEPT !.closing_balance = r.input.value, !.closed_at = clock,
                               !.is_open = FALSE]
    IN
    /\ r.op = "close" /\ r.pc = "save"
    /\ drawers' = [drawers EXCEPT ![r.target] = saved]
    /\ clock' = clock + 1
    /\ reqs' = [reqs EXCEPT ![k] =
          IF r.input.kind = "int" THEN [r EXCEPT !.pc = "report", !.row = saved]
          ELSE TillAnswer(r, "500")]
    /\ UNCHANGED <<prices, db, ops>>

RECURSIVE CashSince(_, _, _)
\* sum of final_amount over the first n sales with cashier = c,
\* created_at >= t and payment_method = 'cash'
CashSince(c, t, n) ==
    IF n = 0 THEN 0
    ELSE CashSince(c, t, n - 1)
         + (IF sales[n].cashier = c /\ sales[n].created_at >= t
               /\ sales[n].payment_method = "cash"
            THEN sales[n].final_amount ELSE 0)

CloseReport(k) ==
    LET r == reqs[k] IN
    /\ r.op = "close" /\ r.pc = "report"
    /\ reqs' = [reqs EXCEPT ![k] =
          [TillAnswer(r, "200") EXCEPT !.report =
              [difference |-> r.row.closing_balance - r.row.opening_balance,
               expected_cash |-> CashSince(r.row.cashier, r.row.opened_at, Len(sales)),
               opened_at |-> r.row.opened_at, closed_at |-> r.row.closed_at]]]
    /\ UNCHANGED <<prices, db, ops, till>>

\* ------------------------- CashDrawerViewSet.update / partial_update
\* ModelViewSet's generic update through CashDrawerSerializer.
DrawerUpdate(k, conc, d, patch) ==
    /\ CanStart(k, conc)
    /\ d \in 1..Len(drawers)
    /\ ops' = ops + 1
    /\ reqs' = [reqs EXCEPT ![k] =
          [TillBegin("patch", d, drawers[d].cashier, patch) EXCEPT
              !.row = IF patch.field = "is_open"
                      THEN [drawers[d] EXCEPT !.is_open = patch.value]
                      ELSE [drawers[d] EXCEPT !.closing_balance = patch.value],
              !.pc = "save"]]
    /\ UNCHANGED <<prices, db, till>>

DrawerUpdateSave(k) ==
    LET r == reqs[k] IN
    /\ r.op = "patch" /\ r.pc = "save"
    /\ drawers' = [drawers EXCEPT ![r.target] = r.row]
    /\ reqs' = [reqs EXCEPT ![k] = TillAnswer(r, "200")]
    /\ UNCHANGED <<prices, db, ops, clock>>

\* ------------------------------------ Sale.objects.create, seen by the till
\* Both commit_sale entry points insert the Sale row in one statement; what
\* they do next writes no field the drawer report reads.
TillSale(conc, cashier, payment_method, final_amount) ==
    /\ ops < MaxOps
    /\ Len(sales) < MaxSales
    /\ conc \/ \A k \in Slots : ~InFlight(k)
    /\ ops' = ops + 1
    /\ sales' = Append(sales, TillSaleRow(cashier, payment_method, final_amount, clock))
    /\ clock' = clock + 1
    /\ UNCHANGED <<inventory, saleItems, purchases, purchaseItems, moved, reqs, drawers, prices>>

\* The drawer operations and cash sales, one request at a time.
DrawerNext ==
    \/ \E k \in Slots, c \in Cashiers, b \in Balances : OpenDrawer(k, FALSE, c, b)
    \/ \E k \in Slots : OpenCreate(k)
    \/ \E k \in Slots, d \in 1..MaxDrawers, b \in ClosingInputs : CloseDrawer(k, FALSE, d, b)
    \/ \E k \in Slots : CloseSave(k)
    \/ \E k \in Slots : CloseReport(k)
    \/ \E k \in Slots, d \in 1..MaxDrawers, patch \in DrawerPatches :
          DrawerUpdate(k, FALSE, d, patch)
    \/ \E k \in Slots : DrawerUpdateSave(k)
    \/ \E c \in Cashiers, m \in Methods, a \in SaleAmounts : TillSale(FALSE, c, m, a)

\* The same with two workers whose statements interleave.
DrawerConcNext ==
    \/ \E k \in Slots, c \in Cashiers, b \in Balances : OpenDrawer(k, TRUE, c, b)
    \/ \E k \in Slots : OpenCreate(k)
    \/ \E k \in Slots, d \in 1..MaxDrawers, b \in ClosingInputs : CloseDrawer(k, TRUE, d, b)
    \/ \E k \in Slots : CloseSave(k)
    \/ \E k \in Slots : CloseReport(k)
    \/ \E c \in Cashiers, m \in Methods, a \in SaleAmounts : TillSale(TRUE, c, m, a)

DrawerSpec == Init /\ [][DrawerNext]_vars
DrawerConcSpec == Init /\ [][DrawerConcNext]_vars

\* ======================================================= prices and profit
\* A request that is a single statement (a read, or a generic update of a
\* product): what it answered (report), and what the same request on the same
\* row answered when this worker made it just before (prev; history), and the
\* database as it found it (pre; history).
ReadBlank ==
    [op |-> "none", pc |-> "idle", target |-> 0, product |-> "none", result |-> "none",
     report |-> NoRow, prev |-> NoRow,
     pre |-> [inventory |-> [p \in Stocked |-> 0], nsales |-> 0, nitems |-> 0]]

LastReport(k, op, target, product) ==
    IF /\ reqs[k].pc = "done" /\ reqs[k].op = op
       /\ reqs[k].target = target /\ reqs[k].product = product
    THEN reqs[k].report
    ELSE NoRow

ReadAnswer(k, op, target, product, report) ==
    [ReadBlank EXCEPT !.op = op, !.pc = "done", !.target = target, !.product = product,
                      !.result = "200", !.report = report, !.pre = Snapshot,
                      !.prev = LastReport(k, op, target, product)]

\* ------------------------------- ProductViewSet.update / partial_update
\* ProductCreateUpdateSerializer: cost_price and selling_price are writable
\* and carry no validator but the two fractional digits.
PriceValues == {0, 100, 150}

ProductUpdate(k, conc, p, cost_price, selling_price) ==
    /\ CanStart(k, conc)
    /\ ops' = ops + 1
    /\ prices' = [prices EXCEPT ![p] =
                     [cost_price |-> cost_price, selling_price |-> selling_price,
                      updated_at |-> clock]]
    /\ clock' = clock + 1
    /\ reqs' = [reqs EXCEPT ![k] = ReadAnswer(k, "product_update", 0, p, NoRow)]
    /\ UNCHANGED <<db, drawers>>

\* --------------------------------------------------------------- profit
\* A profit that takes the cost the product had at the start, not the one it
\* has now.
ItemProfitAtInitialCost(n) ==
    200 * saleItems[n].subtotal - InitPrices.cost_price * saleItems[n].quantity

\* SaleItem.profit, and the loop bodies of SaleDetailSerializer.get_profit and
\* of daily_summary: item.subtotal - item.product.cost_price * item.quantity,
\* counting 0.00005.
ItemProfit(n) ==
    200 * saleItems[n].subtotal - prices[saleItems[n].product].cost_price * saleItems[n].quantity

RECURSIVE SumProfit(_)
SumProfit(ns) == IF ns = << >> THEN 0 ELSE ItemProfit(Head(ns)) + SumProfit(Tail(ns))

\* Sale.profit and SaleDetailSerializer.get_profit
SaleProfit(s) == SumProfit(ItemsOfSale(s))

\* SaleViewSet.retrieve: SaleDetailSerializer over the sale and its items.
SaleDetail(k, conc, s) ==
    /\ CanStart(k, conc)
    /\ s \in 1..Len(sales)
    /\ ops' = ops + 1
    /\ reqs' = [reqs EXCEPT ![k] =
          ReadAnswer(k, "sale_detail", s, "none",
                     [profit |-> SaleProfit(s),
                      subtotals |-> [i \in 1..Len(ItemsOfSale(s)) |->
                                        saleItems[ItemsOfSale(s)[i]].subtotal]])]
    /\ UNCHANGED <<db, till, prices>>

\* ------------------------------------------------------------ summaries
\* created_at__date: the calendar date a time falls on.
Day(t) == t \div TicksPerDay
Days == 0..Day(MaxTime)

\* The sales of a date range that are not refunded.
UnrefundedSalesBetween(first, last) ==
    {s \in 1..Len(sales) : /\ first <= Day(sales[s].created_at)
                           /\ Day(sales[s].created_at) <= last
                           /\ ~sales[s].is_refunded}

\* Sale.objects.filter(created_at__date__gte=first, created_at__date__lte=last);
\* daily_summary's filter(created_at__date=date) is the range of one date.
SalesBetween(first, last) ==
    {s \in 1..Len(sales) : /\ first <= Day(sales[s].created_at)
                           /\ Day(sales[s].created_at) <= last}

\* Sum('final_amount')
RECURSIVE SumAmount(_)
SumAmount(S) ==
    IF S = {} THEN 0
    ELSE LET s == CHOOSE x \in S : TRUE IN sales[s].final_amount + SumAmount(S \ {s})

\* the loop over sales and their items
RECURSIVE SumSaleProfit(_)
SumSaleProfit(S) ==
    IF S = {} THEN 0
    ELSE LET s == CHOOSE x \in S : TRUE IN SaleProfit(s) + SumSaleProfit(S \ {s})

\* A distribution with a row for every method, those no sale has as well.
PaymentDistributionEveryMethod(S) ==
    {[payment_method |-> m,
      count |-> Cardinality({s \in S : sales[s].payment_method = m}),
      total |-> SumAmount({s \in S : sales[s].payment_method = m})] : m \in Methods}

\* values('payment_method').annotate(count=Count('id'), total=Sum('final_amount')):
\* one row for each method some sale of S has; the query gives them no order.
PaymentDistribution(S) ==
    {[payment_method |-> m,
      count |-> Cardinality({s \in S : sales[s].payment_method = m}),
      total |-> SumAmount({s \in S : sales[s].payment_method = m})] :
        m \in {sales[s].payment_method : s \in S}}

\* The body both summaries answer with (average_transaction and top_products
\* left out).
Summary(first, last) ==
    LET S == SalesBetween(first, last) IN
    [first |-> first, last |-> last,
     total_sales |-> SumAmount(S),
     total_profit |-> SumSaleProfit(S),
     transaction_count |-> Cardinality(S),
     payment_distribution |-> PaymentDistribution(S)]

\* SaleViewSet.daily_summary, with the date given.
DailySummary(k, conc, date) ==
    /\ CanStart(k, conc)
    /\ ops' = ops + 1
    /\ reqs' = [reqs EXCEPT ![k] =
          ReadAnswer(k, "daily_summary", date, "none", Summary(date, date))]
    /\ UNCHANGED <<db, till, prices>>

\* SaleViewSet.period_summary, with both dates given.
PeriodSummary(k, conc, first, last) ==
    /\ CanStart(k, conc)
    /\ ops' = ops + 1
    /\ reqs' = [reqs EXCEPT ![k] =
          ReadAnswer(k, "period_summary", first, "none", Summary(first, last))]
    /\ UNCHANGED <<db, till, prices>>

\* Time passes between requests.
Tick ==
    /\ clock < MaxTime
    /\ clock' = clock + 1
    /\ UNCHANGED <<db, reqs, ops, drawers, prices>>

\* --------------------------------------------------------------- margin
\* n / d rounded to an integer, half to even (d > 0).
RoundFraction(n, d) ==
    LET q == n \div d
        r == n % d
    IN IF 2 * r < d THEN q
       ELSE IF 2 * r > d THEN q + 1
       ELSE IF q % 2 = 0 THEN q ELSE q + 1

\* Product.margin: tests cost_price, then divides by selling_price.  The value
\* is the fraction num / den (a percentage); error is the ZeroDivisionError
\* the division raises.
ModelMargin(product) ==
    IF product.cost_price = 0 THEN [error |-> FALSE, num |-> 0, den |-> 1]
    ELSE IF product.selling_price = 0 THEN [error |-> TRUE, num |-> 0, den |-> 1]
    ELSE [error |-> FALSE, num |-> (product.selling_price - product.cost_price) * 100,
          den |-> product.selling_price]

\* ProductDetailSerializer.get_margin: tests selling_price; round(margin, 2),
\* in hundredths of a percent.
SerializerMargin(product) ==
    IF product.selling_price = 0 THEN 0
    ELSE RoundFraction((product.selling_price - product.cost_price) * 10000,
                       product.selling_price)

\* ProductViewSet.retrieve, with the model property read beside the
\* serializer's field.
ProductDetail(k, conc, p) ==
    /\ CanStart(k, conc)
    /\ ops' = ops + 1
    /\ reqs' = [reqs EXCEPT ![k] =
          ReadAnswer(k, "product_detail", 0, p,
                     [cost_price |-> prices[p].cost_price,
                      selling_price |-> prices[p].selling_price,
                      margin |-> SerializerMargin(prices[p]),
                      model_margin |-> ModelMargin(prices[p])])]
    /\ UNCHANGED <<db, till, prices>>

\* Bodies of lines of the stocked product: 0.005 or 0.01 of it, with no
\* unit_price, with the selling price, or with another price.
PricedLines ==
    [product : Stocked, quantity : {q \in Qtys : q > 0},
     unit_price : {Null, InitPrices.selling_price, InitPrices.selling_price + 50}]
PricedLists == UNION {[1..n -> PricedLines] : n \in 0..MaxItems}

\* Sales, refunds, price changes and the reads of profit and margin, one
\* request at a time.
PriceNext ==
    \/ \E k \in Slots, items \in PricedLists : ApiCreateSale(k, FALSE, TRUE, PlainHead, items)
    \/ \E k \in Slots : ApiSaleItem(k)
    \/ \E k \in Slots : ApiInvRead(k)
    \/ \E k \in Slots : ApiInvWrite(k)
    \/ \E k \in Slots, items \in PricedLists : ViewCreateSale(k, FALSE, TRUE, PlainHead, items)
    \/ \E k \in Slots : ViewSaleItem(k)
    \/ \E k \in Slots : ViewInvRead(k)
    \/ \E k \in Slots : ViewInvWrite(k)
    \/ \E k \in Slots, s \in 1..MaxSales : RefundSale(k, FALSE, s)
    \/ \E k \in Slots : RefundInvRead(k)
    \/ \E k \in Slots : RefundInvWrite(k)
    \/ \E k \in Slots : RefundSave(k)
    \/ \E k \in Slots, p \in Stocked, c \in PriceValues, v \in PriceValues :
          ProductUpdate(k, FALSE, p, c, v)
    \/ \E k \in Slots, s \in 1..MaxSales : SaleDetail(k, FALSE, s)
    \/ \E k \in Slots, date \in Days : DailySummary(k, FALSE, date)
    \/ \E k \in Slots, p \in Stocked : ProductDetail(k, FALSE, p)

PriceSpec == Init /\ [][PriceNext]_vars

\* ============================================================ the books
\* The money a sale records and the reports that read it.  The shop as
\* cashier c1 has opened a drawer on it: the state open_drawer leaves.
BooksInit ==
    /\ inventory = [p \in Stocked |-> InitQty]
    /\ sales = << >>
    /\ saleItems = << >>
    /\ purchases = << >>
    /\ purchaseItems = << >>
    /\ reqs = [k \in Slots |-> Idle]
    /\ ops = 0
    /\ moved = [p \in Stocked |-> 0]
    /\ drawers = <<DrawerRow("c1", 0, 1)>>
    /\ clock = 2
    /\ prices = [p \in Products |-> InitPrices]

\* One line: 0.01 of the stocked product at its selling price.
BookLists == {<<[product |-> p, quantity |-> MaxQty, unit_price |-> InitPrices.selling_price]>> :
                 p \in Stocked}
\* A closing_balance sent as a JSON integer.
CountedBalances == [kind : {"int"}, value : Balances]

\* Sales through both entry points, refunds, generic updates of a sale, the
\* summaries and the closing of the drawer, one request at a time, while
\* time passes.
BooksNext ==
    \/ \E k \in Slots, head \in SaleHeads, items \in BookLists :
          ApiCreateSale(k, FALSE, TRUE, head, items)
    \/ \E k \in Slots : ApiSaleItem(k)
    \/ \E k \in Slots : ApiInvRead(k)
    \/ \E k \in Slots : ApiInvWrite(k)
    \/ \E k \in Slots, head \in SaleHeads, items \in BookLists :
          ViewCreateSale(k, FALSE, TRUE, head, items)
    \/ \E k \in Slots : ViewSaleItem(k)
    \/ \E k \in Slots : ViewInvRead(k)
    \/ \E k \in Slots : ViewInvWrite(k)
    \/ \E k \in Slots, s \in 1..MaxSales : RefundSale(k, FALSE, s)
    \/ \E k \in Slots : RefundInvRead(k)
    \/ \E k \in Slots : RefundInvWrite(k)
    \/ \E k \in Slots : RefundSave(k)
    \/ \E k \in Slots, s \in 1..MaxSales, patch \in SalePatches :
          SaleUpdate(k, FALSE, s, patch)
    \/ \E k \in Slots : SaleUpdateSave(k)
    \/ \E k \in Slots, date \in Days : DailySummary(k, FALSE, date)
    \/ \E k \in Slots, first \in Days, last \in Days : PeriodSummary(k, FALSE, first, last)
    \/ \E k \in Slots, d \in 1..MaxDrawers, b \in CountedBalances : CloseDrawer(k, FALSE, d, b)
    \/ \E k \in Slots : CloseSave(k)
    \/ \E k \in Slots : CloseReport(k)
    \/ Tick

BooksSpec == BooksInit /\ [][BooksNext]_vars

\* ------------------------------------------------------------ properties
Done(k) == reqs[k].pc = "done"
Quiescent == \A k \in Slots : ~InFlight(k)

CreateOps == {"api_create", "view_create"}
Committed == {"201", "success"}
Rejected == {"400", "error"}

\* The database as the request found it.
Untouched(r) ==
    /\ Len(sales) = r.pre.nsales
    /\ Len(saleItems) = r.pre.nitems
    /\ inventory = r.pre.inventory

RECURSIVE SoldUpTo(_, _)
\* Sum of the quantities of the first n SaleItems of product p in sales not refunded.
SoldUpTo(p, n) ==
    IF n = 0 THEN 0
    ELSE SoldUpTo(p, n - 1)
         + (IF saleItems[n].product = p /\ ~sales[saleItems[n].sale].is_refunded
            THEN saleItems[n].quantity ELSE 0)

RECURSIVE ReceivedUpTo(_, _)
\* Sum of the quantities of the first n PurchaseItems of product p in purchases
\* on which mark_received succeeded.
ReceivedUpTo(p, n) ==
    IF n = 0 THEN 0
    ELSE ReceivedUpTo(p, n - 1)
         + (IF purchaseItems[n].product = p /\ purchases[purchaseItems[n].purchase].received_ok
            THEN purchaseItems[n].quantity ELSE 0)

\* C1: a commit_sale that fails (either entry point) leaves no Sale row, no
\* SaleItem row and no inventory debit behind.
C1_AllOrNothing ==
    \A k \in Slots :
        (Done(k) /\ reqs[k].op \in CreateOps /\ reqs[k].result \notin Committed)
            => Untouched(reqs[k])

\* C2: after any sequence of completed commit_sale, refund_sale, commit_purchase
\* and mark_received, quantity_on_hand of every product is its initial quantity
\* minus the quantities sold in sales not refunded plus the quantities of the
\* purchases on which mark_received succeeded.
C2_StockMatchesRecords ==
    Quiescent =>
        \A p \in Stocked :
            inventory[p] = InitQty - SoldUpTo(p, Len(saleItems))
                                   + ReceivedUpTo(p, Len(purchaseItems))

\* C3: whatever the interleaving of the requests in flight, once they have all
\* answered quantity_on_hand is the initial quantity plus every credit minus
\* every debit they applied: no update is lost.
C3_NoLostUpdate ==
    Quiescent => \A p \in Stocked : inventory[p] = InitQty + moved[p]

\* C4: commit_sale followed directly by refund_sale of that sale leaves every
\* quantity_on_hand at its value before the sale.
C4_RoundTrip ==
    \A k \in Slots :
        (Done(k) /\ reqs[k].op = "refund"
           /\ reqs[k].prev.op \in CreateOps /\ reqs[k].prev.result \in Committed)
            => inventory = reqs[k].prev.inventory

\* C5: of two refund_sale calls in succession on one sale, the second answers
\* 400 (already refunded) and changes no quantity, and every line item of the
\* sale has been credited exactly once.
C5_SecondRefundRejected ==
    \A k \in Slots :
        (Done(k) /\ reqs[k].op = "refund" /\ reqs[k].prev.op = "refund")
            => /\ reqs[k].result = "400"
               /\ inventory = reqs[k].pre.inventory
               /\ sales[reqs[k].target].is_refunded
               /\ \A n \in 1..Len(saleItems) :
                     saleItems[n].sale = reqs[k].target => saleItems[n].credited = 1

\* C6: whatever the interleaving of refund_sale requests, no line item is
\* credited back to inventory more than once.
C6_RefundAtMostOnce ==
    \A n \in 1..Len(saleItems) : saleItems[n].credited <= 1

\* C7: a refund_sale that fails at some line item leaves every quantity_on_hand
\* as it found it, and is_refunded false.
C7_NoPartialRefund ==
    \A k \in Slots :
        (Done(k) /\ reqs[k].op = "refund" /\ reqs[k].result = "500")
            => /\ inventory = reqs[k].pre.inventory
               /\ ~sales[reqs[k].target].is_refunded

\* C8: once is_refunded is true of a sale it stays true, whatever operation
\* of the sale endpoints runs.
C8_RefundOneWay ==
    [][\A s \in 1..Len(sales) : sales[s].is_refunded => sales'[s].is_refunded]_vars

\* C9: commit_sale with an empty or missing item list is rejected with a
\* validation error and creates no Sale row (either entry point).
C9_EmptyRejected ==
    \A k \in Slots :
        (Done(k) /\ reqs[k].op \in CreateOps /\ reqs[k].empty)
            => /\ reqs[k].result \in Rejected
               /\ Len(sales) = reqs[k].pre.nsales

\* C10: commit_sale with a line item of quantity <= 0 is rejected: such a
\* request is never committed and changes no quantity_on_hand.
C10_NonPositiveRejected ==
    \A k \in Slots :
        (Done(k) /\ reqs[k].op \in CreateOps /\ reqs[k].nonpos)
            => /\ reqs[k].result \notin Committed
               /\ inventory = reqs[k].pre.inventory

\* C11: starting from non-negative stock, no commit_sale, refund_sale or
\* mark_received ever leaves a quantity_on_hand below zero.
C11_StockNeverNegative ==
    \A p \in Stocked : inventory[p] >= 0

\* C12: whatever the interleaving of open_drawer requests, no cashier has
\* more than one CashDrawer with is_open = true.
C12_OneOpenDrawer ==
    \A c \in Cashiers : Cardinality(OpenDrawersOf(c)) <= 1

\* C13: of two open_drawer calls in a row by one cashier, the second returns
\* the drawer the first returned, creates no drawer and changes no field of
\* any drawer, whatever opening_balance it carries.
C13_IdempotentOpen ==
    \A k \in Slots :
        (Done(k) /\ reqs[k].op = "open" /\ reqs[k].prev.op = "open"
           /\ reqs[k].prev.cashier = reqs[k].cashier /\ reqs[k].prev.result = "200")
            => /\ reqs[k].result = "200"
               /\ reqs[k].drawer = reqs[k].prev.drawer
               /\ drawers = reqs[k].pre

\* C13 witness: a second open_drawer in a row has answered, carrying an
\* opening_balance other than the one stored in the drawer it returns.
C13_Witness ==
    \E k \in Slots :
        /\ Done(k) /\ reqs[k].op = "open" /\ reqs[k].prev.op = "open"
        /\ reqs[k].prev.cashier = reqs[k].cashier /\ reqs[k].prev.result = "200"
        /\ reqs[k].drawer \in 1..Len(drawers)
        /\ reqs[k].input # drawers[reqs[k].drawer].opening_balance

\* C14: a drawer whose is_open is false never has is_open = true again, and
\* its closing_balance and closed_at never change, whatever operation of the
\* drawer endpoints runs.
C14_ClosedIsTerminal ==
    [][\A d \in 1..Len(drawers) :
          ~drawers[d].is_open =>
              /\ ~drawers'[d].is_open
              /\ drawers'[d].closing_balance = drawers[d].closing_balance
              /\ drawers'[d].closed_at = drawers[d].closed_at]_vars

\* The drawer a close_drawer request found was closed.
FoundClosed(r) == r.op = "close" /\ ~r.pre[r.target].is_open

C16_ClosedOnce ==
    \A j, k \in Slots :
        (j # k /\ reqs[j].op = "close" /\ reqs[k].op = "close"
           /\ reqs[j].target = reqs[k].target)
            => ~(/\ reqs[j].pc = "report" \/ (Done(j) /\ reqs[j].result # "400")
                 /\ reqs[k].pc = "report" \/ (Done(k) /\ reqs[k].result # "400"))

\* The drawer a close_drawer request found was open.
FoundOpen(r) == r.op = "close" /\ r.pre[r.target].is_open

C18_CloseReports ==
    \A k \in Slots :
        (Done(k) /\ FoundOpen(reqs[k]) /\ reqs[k].input # NoClosing)
            => /\ reqs[k].result = "200"
               /\ drawers[reqs[k].target].closing_balance = reqs[k].input.value
               /\ drawers[reqs[k].target].closed_at # Null
               /\ ~drawers[reqs[k].target].is_open
               /\ reqs[k].report.difference
                    = reqs[k].input.value - reqs[k].pre[reqs[k].target].opening_balance

RECURSIVE CashWithin(_, _, _, _)
\* Sum of final_amount over the first n sales of cashier c paid in cash with
\* t0 <= created_at < t1.
CashWithin(c, t0, t1, n) ==
    IF n = 0 THEN 0
    ELSE CashWithin(c, t0, t1, n - 1)
         + (IF sales[n].cashier = c /\ sales[n].payment_method = "cash"
               /\ sales[n].created_at >= t0 /\ sales[n].created_at < t1
            THEN sales[n].final_amount ELSE 0)

\* C19: the expected_cash a close_drawer reports is the sum of final_amount
\* over the cash sales of the drawer's cashier created in [opened_at,
\* closed_at), whatever is committed while the close runs.
C19_ExpectedCashWindow ==
    \A k \in Slots :
        (Done(k) /\ reqs[k].op = "close" /\ reqs[k].result = "200")
            => reqs[k].report.expected_cash
                 = CashWithin(reqs[k].cashier, reqs[k].report.opened_at,
                              reqs[k].report.closed_at, Len(sales))

\* C20: mark_received on a purchase already 'received' answers 400 and
\* changes no quantity_on_hand; and however often mark_received is called in
\* succession, no purchase item is credited to inventory more than once.
C20_SecondReceiveRejected ==
    /\ \A k \in Slots :
          (Done(k) /\ reqs[k].op = "mark_received" /\ reqs[k].result # "200"
             /\ purchases[reqs[k].target].status = "received")
              => /\ reqs[k].result = "400"
                 /\ inventory = reqs[k].pre.inventory
    /\ Quiescent => \A n \in 1..Len(purchaseItems) : purchaseItems[n].credited <= 1

\* C21: between requests, the items of a purchase have been credited to
\* inventory once if its status is 'received' and not at all if it is
\* 'pending', and never more than once.
C21_CreditedOnceOnReceipt ==
    Quiescent =>
        \A n \in 1..Len(purchaseItems) :
            purchaseItems[n].credited
                = IF purchases[purchaseItems[n].purchase].status = "received" THEN 1 ELSE 0

\* C22: a mark_received that fails at some item leaves every quantity_on_hand
\* as it found it and the purchase 'pending'; the status is 'received' only
\* when every item of the purchase has been credited.
C22_ReceiveAllOrNothing ==
    /\ \A k \in Slots :
          (Done(k) /\ reqs[k].op = "mark_received" /\ reqs[k].result = "500")
              => /\ inventory = reqs[k].pre.inventory
                 /\ purchases[reqs[k].target].status = "pending"
    /\ \A u \in 1..Len(purchases) :
          purchases[u].received_ok =>
              \A n \in 1..Len(purchaseItems) :
                  purchaseItems[n].purchase = u => purchaseItems[n].credited >= 1

\* The PurchaseItem row a step of commit_purchase has just stored.
NewPurchaseItem == purchaseItems'[Len(purchaseItems')]

\* C23: every step of commit_purchase leaves every quantity_on_hand unchanged;
\* an accepted body creates the Purchase with the status given and then, line
\* by line, one PurchaseItem holding the line's product, quantity and unit_cost
\* and subtotal = quantity x unit_cost rounded to two fractional digits.
C23_PurchaseCreateStoresLines ==
    [][\A k \in Slots :
          (reqs'[k].op = "purchase_create" /\ reqs'[k] # reqs[k]) =>
              /\ inventory' = inventory
              /\ UNCHANGED <<sales, saleItems, moved>>
              /\ IF ~InFlight(k)
                 THEN /\ purchaseItems' = purchaseItems
                      /\ \/ reqs'[k].result = "400" /\ purchases' = purchases
                         \/ /\ reqs'[k].pc = "item"
                            /\ Len(purchases') = Len(purchases) + 1
                            /\ reqs'[k].target = Len(purchases')
                 ELSE /\ purchases' = purchases
                      /\ Len(purchaseItems') = Len(purchaseItems) + 1
                      /\ SubSeq(purchaseItems', 1, Len(purchaseItems)) = purchaseItems
                      /\ NewPurchaseItem.purchase = reqs[k].target
                      /\ NewPurchaseItem.product = Head(reqs[k].items).product
                      /\ NewPurchaseItem.quantity = Head(reqs[k].items).quantity
                      /\ NewPurchaseItem.unit_cost = Head(reqs[k].items).unit_cost
                      /\ NewPurchaseItem.subtotal
                            = RoundCents(NewPurchaseItem.quantity * NewPurchaseItem.unit_cost)
                      /\ reqs'[k].result = "201" <=> Len(reqs[k].items) = 1
    ]_vars

\* C23 as stated: the stored subtotal is the exact product quantity x unit_cost
\* (subtotal counts 0.01, the product 0.00005).
C23_SubtotalExact ==
    \A n \in 1..Len(purchaseItems) :
        200 * purchaseItems[n].subtotal
            = purchaseItems[n].quantity * purchaseItems[n].unit_cost

\* A purchase of two lines was committed, one of them 0.01 x 1.50 stored with
\* subtotal 0.02, and the stock is what it was.
C23_Witness ==
    \E k \in Slots :
        /\ Done(k) /\ reqs[k].op = "purchase_create" /\ reqs[k].result = "201"
        /\ Len(ItemsOfPurchase(reqs[k].target)) = 2
        /\ \E n \in 1..Len(purchaseItems) :
              /\ purchaseItems[n].unit_cost = 150
              /\ purchaseItems[n].subtotal = 2
        /\ inventory = reqs[k].pre.inventory

\* C24 (first half): no step changes the unit_price or the subtotal of a
\* SaleItem that exists, or removes a SaleItem, whatever the step does to
\* prices, other sales or refunds.
C24_LineItemsWriteOnce ==
    [][/\ Len(saleItems') >= Len(saleItems)
       /\ \A n \in 1..Len(saleItems) :
             /\ saleItems'[n].unit_price = saleItems[n].unit_price
             /\ saleItems'[n].subtotal = saleItems[n].subtotal
    ]_vars

\* C24 (second half): the subtotal a SaleItem stores is its quantity x its
\* unit_price, to the two fractional digits the column holds.
C24_SubtotalIsProduct ==
    \A n \in 1..Len(saleItems) :
        saleItems[n].subtotal = RoundCents(saleItems[n].quantity * saleItems[n].unit_price)

\* The SaleItem row a step of a sale has just stored.
NewSaleItem == saleItems'[Len(saleItems')]

\* C25: a sale whose body is valid but for a line with no unit_price is
\* accepted by SaleViewSet.create; and through both entry points the SaleItem
\* stored for a line carries the line's unit_price when it has one and the
\* product's selling price when it has none.
C25_UnitPriceDefault ==
    [][\A k \in Slots :
          /\ (reqs'[k].op = "api_create" /\ reqs'[k].unpriced) => reqs'[k].result # "400"
          /\ (reqs[k].op \in CreateOps /\ reqs[k].pc = "item" /\ saleItems' # saleItems) =>
                NewSaleItem.unit_price
                    = IF Head(reqs[k].items).unit_price = Null
                      THEN prices[Head(reqs[k].items).product].selling_price
                      ELSE Head(reqs[k].items).unit_price
    ]_vars

\* The profit of the sales in S as the database stands: over the first n
\* SaleItem rows, the stored subtotal less the product's present cost_price
\* times the stored quantity (counting 0.00005).
RECURSIVE LiveProfit(_, _)
LiveProfit(S, n) ==
    IF n = 0 THEN 0
    ELSE LiveProfit(S, n - 1)
           + IF saleItems[n].sale \in S
             THEN 200 * saleItems[n].subtotal
                    - prices[saleItems[n].product].cost_price * saleItems[n].quantity
             ELSE 0

\* C27: the profit a sale's detail reports, and the total_profit of a daily
\* summary, are the stored subtotals less the products' cost_price as it is
\* when the report is read, times the stored quantities; the subtotals
\* reported are the stored ones.
C27_ProfitUsesLiveCost ==
    \A k \in Slots :
        /\ (Done(k) /\ reqs[k].op = "sale_detail") =>
              /\ reqs[k].report.profit = LiveProfit({reqs[k].target}, Len(saleItems))
              /\ reqs[k].report.subtotals
                    = [i \in 1..Len(ItemsOfSale(reqs[k].target)) |->
                          saleItems[ItemsOfSale(reqs[k].target)[i]].subtotal]
        /\ (Done(k) /\ reqs[k].op = "daily_summary") =>
              reqs[k].report.total_profit
                  = LiveProfit({s \in 1..Len(sales) :
                                   Day(sales[s].created_at) = reqs[k].target},
                               Len(saleItems))

\* A sale of 0.01 of p1 at 1.50, stored with subtotal 0.02; p1's cost_price
\* was changed after the sale, and the detail read after that reports the
\* profit at the new cost, not the 0.01 it was at the cost of the sale.
C27_Witness ==
    \E k \in Slots :
        /\ Done(k) /\ reqs[k].op = "sale_detail"
        /\ reqs[k].report.subtotals = <<2>>
        /\ \E n \in 1..Len(saleItems) :
              /\ saleItems[n].sale = reqs[k].target
              /\ saleItems[n].quantity = 2
              /\ prices[saleItems[n].product].updated_at > sales[reqs[k].target].created_at
              /\ prices[saleItems[n].product].cost_price # InitPrices.cost_price
        /\ reqs[k].report.profit # 200 * 2 - InitPrices.cost_price * 2

\* C29: for a product whose selling price is zero, the margin is reported as
\* zero, without a division by zero, by Product.margin and by
\* ProductDetailSerializer.get_margin alike.
C29_ZeroSellingPriceZeroMargin ==
    \A k \in Slots :
        (Done(k) /\ reqs[k].op = "product_detail" /\ reqs[k].report.selling_price = 0) =>
            /\ reqs[k].report.margin = 0
            /\ ~reqs[k].report.model_margin.error
            /\ reqs[k].report.model_margin.num = 0

\* C26: the final_amount of a sale is the one its request supplied, whatever
\* its line items come to, and no later step of any operation of the sale
\* endpoints (adding its items, a refund, a generic update) changes it.
C26_AmountsFixedAtCreation ==
    [][/\ Len(sales') >= Len(sales)
       /\ \A s \in 1..Len(sales) : sales'[s].final_amount = sales[s].final_amount
    ]_vars

\* The sales created on a date and paid by one of the methods M.
SalesOn(date, M) ==
    {s \in 1..Len(sales) : Day(sales[s].created_at) = date /\ sales[s].payment_method \in M}

\* The sum of final_amount over those of the first n sales that were created
\* on a date and paid by one of the methods M.
RECURSIVE TakingsOn(_, _, _)
TakingsOn(date, M, n) ==
    IF n = 0 THEN 0
    ELSE TakingsOn(date, M, n - 1) + IF n \in SalesOn(date, M) THEN sales[n].final_amount ELSE 0

\* C28: daily_summary for a date changes no row; its total_sales is the sum
\* of final_amount over the sales created on that date, its transaction_count
\* their number, and its payment_distribution holds, for each payment method
\* some of those sales has, one entry with the count and the total of that
\* method's sales, and no other entry.
C28_DailySummary ==
    [][\A k \in Slots :
          (reqs'[k].op = "daily_summary" /\ reqs'[k] # reqs[k]) =>
              LET date == reqs'[k].target
                  report == reqs'[k].report
              IN
              /\ UNCHANGED <<db, drawers, prices>>
              /\ report.total_sales = TakingsOn(date, Methods, Len(sales))
              /\ report.transaction_count = Cardinality(SalesOn(date, Methods))
              /\ \A m \in Methods :
                    {e \in report.payment_distribution : e.payment_method = m}
                        = IF SalesOn(date, {m}) = {} THEN {}
                          ELSE {[payment_method |-> m,
                                 count |-> Cardinality(SalesOn(date, {m})),
                                 total |-> TakingsOn(date, {m}, Len(sales))]}
              /\ \A e \in report.payment_distribution : e.payment_method \in Methods
    ]_vars

\* A summary of a date with one sale, paid in cash, while another sale was
\* made on another date: one transaction, one entry, the other sale left out.
C28_Witness ==
    \E k \in Slots :
        /\ Done(k) /\ reqs[k].op = "daily_summary"
        /\ Len(sales) = 2
        /\ reqs[k].report.transaction_count = 1
        /\ reqs[k].report.total_sales = sales[1].final_amount
        /\ sales[2].final_amount # sales[1].final_amount
        /\ reqs[k].report.payment_distribution
              = {[payment_method |-> "cash", count |-> 1, total |-> sales[1].final_amount]}

\* The sum of final_amount over those of the first n sales that are in S.
RECURSIVE Takings(_, _)
Takings(S, n) ==
    IF n = 0 THEN 0
    ELSE Takings(S, n - 1) + IF n \in S THEN sales[n].final_amount ELSE 0

\* The sales created from date first to date last, refunded or not as asked.
InRange(first, last, refunded) ==
    {s \in 1..Len(sales) : /\ first <= Day(sales[s].created_at)
                           /\ Day(sales[s].created_at) <= last
                           /\ sales[s].is_refunded = refunded}

\* C30: a refunded sale stays in the money totals: total_sales and
\* transaction_count of daily_summary and period_summary count the refunded
\* sales of the range with the others, and the expected_cash of close_drawer
\* counts the cashier's cash sales since the drawer was opened, refunded ones
\* included.
C30_RefundStaysInTotals ==
    \A k \in Slots :
        /\ (Done(k) /\ reqs[k].op \in {"daily_summary", "period_summary"}) =>
              LET kept == InRange(reqs[k].report.first, reqs[k].report.last, FALSE)
                  refunded == InRange(reqs[k].report.first, reqs[k].report.last, TRUE)
              IN
              /\ reqs[k].report.total_sales
                    = Takings(kept, Len(sales)) + Takings(refunded, Len(sales))
              /\ reqs[k].report.transaction_count
                    = Cardinality(kept) + Cardinality(refunded)
        /\ (Done(k) /\ reqs[k].op = "close" /\ reqs[k].result = "200") =>
              reqs[k].report.expected_cash
                  = Takings({s \in 1..Len(sales) :
                                /\ sales[s].cashier = reqs[k].cashier
                                /\ sales[s].payment_method = "cash"
                                /\ sales[s].created_at >= reqs[k].report.opened_at},
                            Len(sales))

\* The one sale there is was refunded by refund_sale, which credited its item
\* back to stock; the summary of its date counts one transaction and the
\* sale's final_amount.
C30_Witness ==
    \E k \in Slots :
        /\ Done(k) /\ reqs[k].op = "daily_summary"
        /\ Len(sales) = 1 /\ sales[1].is_refunded
        /\ \E n \in 1..Len(saleItems) : saleItems[n].sale = 1 /\ saleItems[n].credited = 1
        /\ reqs[k].report.transaction_count = 1
        /\ reqs[k].report.total_sales = sales[1].final_amount
====
